---------------------------- MODULE Spec2Model ----------------------------
(***************************************************************************)
(* A model of the gphoto2 wrapper's Camera (src/src/camera.rs) and of the  *)
(* process-wide helpers (src/src/helper.rs).                               *)
(*                                                                         *)
(* Four specifications share the module:                                   *)
(*   SpecOps   the Camera operations that call the driver, one call at a   *)
(*             time, with the driver's answer drawn from small sets;       *)
(*   SpecLife  creation and destruction of Cameras, Widgets and CameraFS   *)
(*             views over one Context, as far as the signatures allow;     *)
(*   SpecHook  threads calling hook_gp_log (std::sync::Once);              *)
(*   SpecLock  threads calling libtool_lock (std::sync::Mutex, poisoning). *)
(***************************************************************************)
EXTENDS Integers, Sequences, FiniteSets, TLC

VARIABLES
  \* ---- SpecOps: the last Camera operation and the device behind it
  op,          \* name of the last operation ("none" before the first)
  input,       \* what the caller passed and what the driver answered
  trace,       \* the driver entry points the operation invoked, in order
  result,      \* what the operation returned
  devConfig,   \* the configuration stored on the device
  devBefore,   \* devConfig when the last operation started
  \* ---- SpecLife: handles and the values derived from a Camera
  ctxHandle,   \* the caller's Context value: "alive" or "dropped"
  ctxRef,      \* the driver's reference count of the GPContext
  cameras,     \* camera id -> "none" | "alive" | "dropped"
  camRef,      \* camera id -> the driver's reference count of the handle
  widgets,     \* widget slot -> 0 (free) or the id of the Camera it came from
  views,       \* CameraFS slot -> 0 (free) or the id of the Camera it borrows
  lastUse,     \* the last use of a derived value, and whether its Camera lived
  \* ---- SpecHook: hook_gp_log
  once,        \* HOOK_LOG_FUNCTION: "INCOMPLETE" | "RUNNING" | "COMPLETE"
  hookPc,      \* thread -> "idle" | "call_once" | "closure"
  hookCalls,   \* thread -> number of hook_gp_log calls that returned
  logFuncs,    \* number of gp_log_add_func registrations made
  contexts,    \* number of live Contexts
  \* ---- SpecLock: libtool_lock
  locked,      \* LIBTOOL_LOCK is held
  poisoned,    \* LIBTOOL_LOCK's poison flag
  lockPc,      \* thread -> "idle" | "lock" | "holding" | "panicked" | "poison_panic"
  guards,      \* threads that own a MutexGuard returned by libtool_lock
  acquired     \* thread -> number of guards it has been handed

opsVars  == <<op, input, trace, result, devConfig, devBefore>>
lifeVars == <<ctxHandle, ctxRef, cameras, camRef, widgets, views, lastUse>>
hookVars == <<once, hookPc, hookCalls, logFuncs, contexts>>
lockVars == <<locked, poisoned, lockPc, guards, acquired>>
vars     == <<opsVars, lifeVars, hookVars, lockVars>>

---------------------------------------------------------------------------
(* Bounds of the model *)
StatusBound == 1      \* driver statuses range over -StatusBound..StatusBound
MaxEventTag == 6      \* event tags the driver may hand back: 0..MaxEventTag
MaxCameras  == 2
MaxWidgets  == 2
MaxViews    == 1
MaxThreads  == 3      \* threads of SpecHook
MaxCalls    == 2      \* hook_gp_log calls per thread
MaxLockers  == 3      \* threads of SpecLock
MaxAcquire  == 2      \* guards handed to one thread

(* The driver's event tags (libgphoto2's CameraEventType) *)
GP_EVENT_UNKNOWN          == 0
GP_EVENT_TIMEOUT          == 1
GP_EVENT_FILE_ADDED       == 2
GP_EVENT_FOLDER_ADDED     == 3
GP_EVENT_CAPTURE_COMPLETE == 4
GP_EVENT_FILE_CHANGED     == 5

KnownTags == {GP_EVENT_UNKNOWN, GP_EVENT_TIMEOUT, GP_EVENT_FILE_ADDED,
              GP_EVENT_FOLDER_ADDED, GP_EVENT_CAPTURE_COMPLETE,
              GP_EVENT_FILE_CHANGED}
PathTags  == {GP_EVENT_FILE_ADDED, GP_EVENT_FOLDER_ADDED, GP_EVENT_FILE_CHANGED}
Tags      == 0..MaxEventTag
Statuses  == (0 - StatusBound)..StatusBound

Folders   == {"/", "/store_00010001/DCIM"}
Names     == {"IMG_0001.JPG", "100CANON"}
Kinds     == {"Window", "Section", "Text", "Range", "Toggle", "Radio",
              "Menu", "Button", "Date"}
Values    == {"iso=100", "iso=400"}


---------------------------------------------------------------------------
(* Values *)

Limb == 256 * 256     \* wide numbers are kept as two limbs, hi * Limb + lo

NoValue == [variant |-> "", folder |-> "", name |-> "", data |-> ""]

NoInput == [status |-> 0, tag |-> 0, folder |-> "", name |-> "", secs |-> 0,
            nanos |-> 0, kind |-> "", value |-> "", auxOk |-> TRUE]

NoResult == [kind |-> "none", err |-> "none", code |-> 0, value |-> NoValue,
             outRead |-> FALSE, payloadRead |-> FALSE]

Ok(v, payload) == [kind |-> "Ok", err |-> "none", code |-> 0, value |-> v,
                   outRead |-> TRUE, payloadRead |-> payload]

OkUnit == [kind |-> "Ok", err |-> "none", code |-> 0,
           value |-> [NoValue EXCEPT !.variant = "Unit"],
           outRead |-> FALSE, payloadRead |-> FALSE]

Err(e, c) == [kind |-> "Err", err |-> e, code |-> c, value |-> NoValue,
              outRead |-> FALSE, payloadRead |-> FALSE]

\* The process left defined behaviour: no value is returned to the caller.
Undefined == [kind |-> "Undefined", err |-> "none", code |-> 0,
              value |-> NoValue, outRead |-> TRUE, payloadRead |-> FALSE]

Call(fn, status, arg) == [fn |-> fn, status |-> status, arg |-> arg]

\* try_gp_internal!: the status check every driver call goes through
try_gp_internal(status) ==
  IF status < 0 THEN [ok |-> FALSE, code |-> status]
                ELSE [ok |-> TRUE, code |-> status]

\* CameraFilePath { inner: *file }: the driver's record, copied
CameraFilePath(variant, folder, name) ==
  [variant |-> variant, folder |-> folder, name |-> name, data |-> ""]

---------------------------------------------------------------------------
(* wait_event: the timeout *)

Seconds == {0, 2147483, 4294968}
Nanos   == {0, 999999999}

\* Duration::as_millis: secs * 1000 + nanos / 1_000_000 as an unsigned
\* 128-bit number, computed limb by limb
as_millis(secs, nanos) ==
  LET sh   == secs \div Limb
      sl   == secs % Limb
      low  == ((sl * 1000) % Limb) + (nanos \div 1000000)
      high == (sh * 1000) + ((sl * 1000) \div Limb)
  IN  [hi |-> high + (low \div Limb), lo |-> low % Limb]

\* `duration_milliseconds as i32`: the low 32 bits, read as two's complement
AsI32(u) ==
  LET h == u.hi % Limb
  IN  IF h < (Limb \div 2) THEN (h * Limb) + u.lo
                           ELSE ((h - Limb) * Limb) + u.lo

---------------------------------------------------------------------------
(* wait_event: the decoding of the driver's event *)

\* A mis-mapping of two neighbouring arms
DecodeEventSwapped(tag, data) ==
  CASE tag = GP_EVENT_UNKNOWN          -> Ok([NoValue EXCEPT !.variant = "Unknown"], FALSE)
    [] tag = GP_EVENT_TIMEOUT          -> Ok([NoValue EXCEPT !.variant = "Timeout"], FALSE)
    [] tag = GP_EVENT_FILE_ADDED       -> Ok(CameraFilePath("NewFolder", data.folder, data.name), TRUE)
    [] tag = GP_EVENT_FOLDER_ADDED     -> Ok(CameraFilePath("NewFile", data.folder, data.name), TRUE)
    [] tag = GP_EVENT_FILE_CHANGED     -> Ok(CameraFilePath("FileChanged", data.folder, data.name), TRUE)
    [] tag = GP_EVENT_CAPTURE_COMPLETE -> Ok([NoValue EXCEPT !.variant = "CaptureComplete"], FALSE)

\* A timeout reported like an unknown event
DecodeEventNoTimeout(tag, data) ==
  CASE tag = GP_EVENT_UNKNOWN          -> Ok([NoValue EXCEPT !.variant = "Unknown"], FALSE)
    [] tag = GP_EVENT_TIMEOUT          -> Ok([NoValue EXCEPT !.variant = "Unknown"], FALSE)
    [] tag = GP_EVENT_FILE_ADDED       -> Ok(CameraFilePath("NewFile", data.folder, data.name), TRUE)
    [] tag = GP_EVENT_FOLDER_ADDED     -> Ok(CameraFilePath("NewFolder", data.folder, data.name), TRUE)
    [] tag = GP_EVENT_FILE_CHANGED     -> Ok(CameraFilePath("FileChanged", data.folder, data.name), TRUE)
    [] tag = GP_EVENT_CAPTURE_COMPLETE -> Ok([NoValue EXCEPT !.variant = "CaptureComplete"], FALSE)

\* The arms of `match event_type`, for a tag that is one of the enum's values
DecodeEvent(tag, data) ==
  CASE tag = GP_EVENT_UNKNOWN          -> Ok([NoValue EXCEPT !.variant = "Unknown"], FALSE)
    [] tag = GP_EVENT_TIMEOUT          -> Ok([NoValue EXCEPT !.variant = "Timeout"], FALSE)
    [] tag = GP_EVENT_FILE_ADDED       -> Ok(CameraFilePath("NewFile", data.folder, data.name), TRUE)
    [] tag = GP_EVENT_FOLDER_ADDED     -> Ok(CameraFilePath("NewFolder", data.folder, data.name), TRUE)
    [] tag = GP_EVENT_FILE_CHANGED     -> Ok(CameraFilePath("FileChanged", data.folder, data.name), TRUE)
    [] tag = GP_EVENT_CAPTURE_COMPLETE -> Ok([NoValue EXCEPT !.variant = "CaptureComplete"], FALSE)

\* What `match event_type` can produce.  event_type is a Rust enum with six
\* values and the match has no fallback arm: a tag that is none of the six is
\* an invalid enum value, and the match may then take any arm or leave
\* defined behaviour altogether.
EventOutcomes(tag, data) ==
  IF tag \in KnownTags
    THEN {DecodeEvent(tag, data)}
    ELSE {DecodeEvent(t, data) : t \in KnownTags} \cup {Undefined}

---------------------------------------------------------------------------
(* The Camera operations that call the driver *)

InitOps ==
  /\ op = "none"
  /\ input = NoInput
  /\ trace = << >>
  /\ result = NoResult
  /\ devConfig = "iso=100"
  /\ devBefore = "iso=100"

\* Every operation but the two writes leaves the device's configuration alone.
Returns(name, in, calls, res) ==
  /\ op' = name
  /\ input' = in
  /\ trace' = calls
  /\ result' = res
  /\ devBefore' = devConfig
  /\ UNCHANGED <<lifeVars, hookVars, lockVars>>

\* `let mut out = uninit(); try_gp_internal!(fn(.., &mut out, ..))?; Ok(out.into())`
DriverGet(name, fn, in, value) ==
  LET r == try_gp_internal(in.status)
  IN  /\ Returns(name, in, <<Call(fn, in.status, 0)>>,
                 IF r.ok THEN Ok(value, FALSE) ELSE Err("driver", r.code))
      /\ UNCHANGED devConfig

Snapshot(variant) == [NoValue EXCEPT !.variant = variant]

capture_image ==
  \E st \in Statuses, f \in Folders, n \in Names :
    DriverGet("capture_image", "gp_camera_capture",
              [NoInput EXCEPT !.status = st, !.folder = f, !.name = n],
              CameraFilePath("CameraFilePath", f, n))

abilities ==
  \E st \in Statuses :
    DriverGet("abilities", "gp_camera_get_abilities",
              [NoInput EXCEPT !.status = st], Snapshot("Abilities"))

summary ==
  \E st \in Statuses :
    DriverGet("summary", "gp_camera_get_summary",
              [NoInput EXCEPT !.status = st], Snapshot("Text"))

about ==
  \E st \in Statuses :
    DriverGet("about", "gp_camera_get_about",
              [NoInput EXCEPT !.status = st], Snapshot("Text"))

manual ==
  \E st \in Statuses :
    DriverGet("manual", "gp_camera_get_manual",
              [NoInput EXCEPT !.status = st], Snapshot("Text"))

storages ==
  \E st \in Statuses :
    DriverGet("storages", "gp_camera_get_storageinfo",
              [NoInput EXCEPT !.status = st], Snapshot("StorageInfo"))

port_info ==
  \E st \in Statuses :
    DriverGet("port_info", "gp_camera_get_port_info",
              [NoInput EXCEPT !.status = st], Snapshot("PortInfo"))

config ==
  \E st \in Statuses :
    DriverGet("config", "gp_camera_get_config",
              [NoInput EXCEPT !.status = st],
              [NoValue EXCEPT !.variant = "Widget", !.name = "Window",
                              !.data = devConfig])

config_key ==
  \E st \in Statuses, key \in {"iso", "shutterspeed"} :
    DriverGet("config_key", "gp_camera_get_single_config",
              [NoInput EXCEPT !.status = st, !.name = key],
              [NoValue EXCEPT !.variant = "Widget", !.name = key,
                              !.data = devConfig])

\* What the driver may have written to event_type and event_data when it
\* returns st: nothing on failure; on success a tag and, for the tags that
\* carry one (and for tags this wrapper does not know), a file-path record
DriverEvents(st) ==
  IF st < 0
    THEN {[tag |-> GP_EVENT_UNKNOWN, folder |-> "", name |-> ""]}
    ELSE {[tag |-> t, folder |-> "", name |-> ""] : t \in KnownTags \ PathTags}
         \cup [tag : Tags \ (KnownTags \ PathTags), folder : Folders, name : Names]

wait_event ==
  \E st \in Statuses, secs \in Seconds, nanos \in Nanos :
    \E ev \in DriverEvents(st) :
      LET duration_milliseconds == as_millis(secs, nanos)
          r    == try_gp_internal(st)
          data == [folder |-> ev.folder, name |-> ev.name]
      IN  /\ \E o \in (IF r.ok THEN EventOutcomes(ev.tag, data)
                               ELSE {Err("driver", r.code)}) :
               Returns("wait_event",
                       [NoInput EXCEPT !.status = st, !.tag = ev.tag,
                                       !.folder = ev.folder, !.name = ev.name,
                                       !.secs = secs, !.nanos = nanos],
                       <<Call("gp_camera_wait_for_event", st,
                              AsI32(duration_milliseconds))>>,
                       o)
          /\ UNCHANGED devConfig

\* The whole-tree write without the check of the root's kind
set_all_config_unguarded ==
  \E st \in Statuses, kind \in Kinds, v \in Values, typeOk \in BOOLEAN :
    LET in == [NoInput EXCEPT !.status = st, !.kind = kind, !.value = v,
                              !.auxOk = typeOk]
        r  == try_gp_internal(st)
    IN  /\ Returns("set_all_config", in,
                   <<Call("gp_camera_set_config", st, 0)>>,
                   IF r.ok THEN OkUnit ELSE Err("driver", r.code))
        /\ devConfig' = IF r.ok THEN v ELSE devConfig

\* typeOk: whether config.widget_type() could read the widget's kind
set_all_config ==
  \E st \in Statuses, kind \in Kinds, v \in Values, typeOk \in BOOLEAN :
    LET in == [NoInput EXCEPT !.status = st, !.kind = kind, !.value = v,
                              !.auxOk = typeOk]
        r  == try_gp_internal(st)
    IN  IF ~typeOk
          THEN /\ Returns("set_all_config", in, << >>, Err("widget", 0))
               /\ UNCHANGED devConfig
        ELSE IF kind # "Window"
          THEN /\ Returns("set_all_config", in, << >>,
                          Err("Full config object must be of type Window", 0))
               /\ UNCHANGED devConfig
        ELSE /\ Returns("set_all_config", in,
                        <<Call("gp_camera_set_config", st, 0)>>,
                        IF r.ok THEN OkUnit ELSE Err("driver", r.code))
             /\ devConfig' = IF r.ok THEN v ELSE devConfig

\* nameOk: whether config.name() could read the widget's name
set_config ==
  \E st \in Statuses, kind \in Kinds, v \in Values, nameOk \in BOOLEAN :
    LET in == [NoInput EXCEPT !.status = st, !.kind = kind, !.value = v,
                              !.auxOk = nameOk]
        r  == try_gp_internal(st)
    IN  IF ~nameOk
          THEN /\ Returns("set_config", in, << >>, Err("widget", 0))
               /\ UNCHANGED devConfig
        ELSE /\ Returns("set_config", in,
                        <<Call("gp_camera_set_single_config", st, 0)>>,
                        IF r.ok THEN OkUnit ELSE Err("driver", r.code))
             /\ devConfig' = IF r.ok THEN v ELSE devConfig

NextOps ==
  \/ capture_image
  \/ abilities
  \/ summary
  \/ about
  \/ manual
  \/ storages
  \/ port_info
  \/ config
  \/ config_key
  \/ wait_event
  \/ set_all_config
  \/ set_config

---------------------------------------------------------------------------
(* Cameras over one Context, and the values derived from them.             *)
(* What the caller may do is what the signatures let the borrow checker    *)
(* accept: Camera<'a> holds PhantomData<&'a _>, the borrow of its Context; *)
(* fs(&'a self) -> CameraFS<'a> borrows the Camera; config(&self) and      *)
(* config_key(&self, ..) return Widget<'a>, bounded by the Camera's        *)
(* parameter 'a (the borrow of the Context), not by the borrow of self.    *)

CameraIds   == 1..MaxCameras
WidgetSlots == 1..MaxWidgets
ViewSlots   == 1..MaxViews

InitLife ==
  /\ ctxHandle = "alive"
  /\ ctxRef = 1
  /\ cameras = [c \in CameraIds |-> "none"]
  /\ camRef = [c \in CameraIds |-> 0]
  /\ widgets = [w \in WidgetSlots |-> 0]
  /\ views = [v \in ViewSlots |-> 0]
  /\ lastUse = [what |-> "none", camera |-> 0, cameraAlive |-> TRUE]

LifeFrame == UNCHANGED <<opsVars, hookVars, lockVars>>

\* Camera::new: stores the two handles; takes no reference of its own
CameraNew(c) ==
  cameras' = [cameras EXCEPT ![c] = "alive"]

\* Context::autodetect_camera / Context::get_camera: the driver makes a
\* handle (count 1), the Camera gets its reference on the Context
autodetect_camera(c) ==
  /\ ctxHandle = "alive"
  /\ cameras[c] = "none"
  /\ \E st \in Statuses :
       IF try_gp_internal(st).ok
         THEN /\ camRef' = [camRef EXCEPT ![c] = 1]
              /\ ctxRef' = ctxRef + 1
              /\ CameraNew(c)
         ELSE UNCHANGED <<camRef, ctxRef, cameras>>
  /\ UNCHANGED <<ctxHandle, widgets, views, lastUse>>
  /\ LifeFrame

\* A drop that releases the Context twice
CameraDropTwice(c) ==
  /\ cameras[c] = "alive"
  /\ \A v \in ViewSlots : views[v] # c
  /\ camRef' = [camRef EXCEPT ![c] = @ - 1]
  /\ ctxRef' = ctxRef - 2
  /\ cameras' = [cameras EXCEPT ![c] = "dropped"]
  /\ UNCHANGED <<ctxHandle, widgets, views, lastUse>>
  /\ LifeFrame

\* impl Drop for Camera: gp_camera_unref, gp_context_unref.  A Camera that a
\* CameraFS borrows cannot be dropped.
CameraDrop(c) ==
  /\ cameras[c] = "alive"
  /\ \A v \in ViewSlots : views[v] # c
  /\ camRef' = [camRef EXCEPT ![c] = @ - 1]
  /\ ctxRef' = ctxRef - 1
  /\ cameras' = [cameras EXCEPT ![c] = "dropped"]
  /\ UNCHANGED <<ctxHandle, widgets, views, lastUse>>
  /\ LifeFrame

\* Camera::fs
fs(c, v) ==
  /\ cameras[c] = "alive"
  /\ views[v] = 0
  /\ views' = [views EXCEPT ![v] = c]
  /\ UNCHANGED <<ctxHandle, ctxRef, cameras, camRef, widgets, lastUse>>
  /\ LifeFrame

\* Camera::config and Camera::config_key: a Widget<'a> on success
config_widget(c, w) ==
  /\ cameras[c] = "alive"
  /\ widgets[w] = 0
  /\ \E st \in Statuses :
       widgets' = IF try_gp_internal(st).ok THEN [widgets EXCEPT ![w] = c]
                                            ELSE widgets
  /\ UNCHANGED <<ctxHandle, ctxRef, cameras, camRef, views, lastUse>>
  /\ LifeFrame

\* Any use of a CameraFS the caller still holds
UseView(v) ==
  /\ views[v] # 0
  /\ lastUse' = [what |-> "CameraFS", camera |-> views[v],
                 cameraAlive |-> cameras[views[v]] = "alive"]
  /\ UNCHANGED <<ctxHandle, ctxRef, cameras, camRef, widgets, views>>
  /\ LifeFrame

\* Any use of a Widget the caller still holds
UseWidget(w) ==
  /\ widgets[w] # 0
  /\ lastUse' = [what |-> "Widget", camera |-> widgets[w],
                 cameraAlive |-> cameras[widgets[w]] = "alive"]
  /\ UNCHANGED <<ctxHandle, ctxRef, cameras, camRef, widgets, views>>
  /\ LifeFrame

DropView(v) ==
  /\ views[v] # 0
  /\ views' = [views EXCEPT ![v] = 0]
  /\ UNCHANGED <<ctxHandle, ctxRef, cameras, camRef, widgets, lastUse>>
  /\ LifeFrame

DropWidget(w) ==
  /\ widgets[w] # 0
  /\ widgets' = [widgets EXCEPT ![w] = 0]
  /\ UNCHANGED <<ctxHandle, ctxRef, cameras, camRef, views, lastUse>>
  /\ LifeFrame

\* The caller's Context goes away: nothing that carries 'a may still live
ContextDrop ==
  /\ ctxHandle = "alive"
  /\ \A c \in CameraIds : cameras[c] # "alive"
  /\ \A w \in WidgetSlots : widgets[w] = 0
  /\ \A v \in ViewSlots : views[v] = 0
  /\ ctxHandle' = "dropped"
  /\ ctxRef' = ctxRef - 1
  /\ UNCHANGED <<cameras, camRef, widgets, views, lastUse>>
  /\ LifeFrame

NextLife ==
  \/ \E c \in CameraIds : autodetect_camera(c)
  \/ \E c \in CameraIds : CameraDrop(c)
  \/ \E c \in CameraIds, v \in ViewSlots : fs(c, v)
  \/ \E c \in CameraIds, w \in WidgetSlots : config_widget(c, w)
  \/ \E v \in ViewSlots : UseView(v)
  \/ \E w \in WidgetSlots : UseWidget(w)
  \/ \E v \in ViewSlots : DropView(v)
  \/ \E w \in WidgetSlots : DropWidget(w)
  \/ ContextDrop

---------------------------------------------------------------------------
(* hook_gp_log: threads creating Contexts, each creation calling it once *)

HookThreads == 1..MaxThreads

InitHook ==
  /\ once = "INCOMPLETE"
  /\ hookPc = [t \in HookThreads |-> "idle"]
  /\ hookCalls = [t \in HookThreads |-> 0]
  /\ logFuncs = 0
  /\ contexts = 0

HookFrame == UNCHANGED <<opsVars, lifeVars, lockVars>>

\* A thread enters hook_gp_log
hook_gp_log(t) ==
  /\ hookPc[t] = "idle"
  /\ hookCalls[t] < MaxCalls
  /\ hookPc' = [hookPc EXCEPT ![t] = "call_once"]
  /\ UNCHANGED <<once, hookCalls, logFuncs, contexts>>
  /\ HookFrame

\* A test of a flag that is set only after the closure ran
call_once_unsynchronised(t) ==
  /\ hookPc[t] = "call_once"
  /\ IF once # "COMPLETE"
       THEN /\ hookPc' = [hookPc EXCEPT ![t] = "closure"]
            /\ UNCHANGED <<once, hookCalls, contexts>>
       ELSE /\ hookPc' = [hookPc EXCEPT ![t] = "idle"]
            /\ hookCalls' = [hookCalls EXCEPT ![t] = @ + 1]
            /\ contexts' = contexts + 1
            /\ UNCHANGED once
  /\ UNCHANGED logFuncs
  /\ HookFrame

\* HOOK_LOG_FUNCTION.call_once: the first caller runs the closure, a caller
\* that finds it running waits, a caller that finds it done returns
call_once(t) ==
  /\ hookPc[t] = "call_once"
  /\ once # "RUNNING"
  /\ IF once = "INCOMPLETE"
       THEN /\ once' = "RUNNING"
            /\ hookPc' = [hookPc EXCEPT ![t] = "closure"]
            /\ UNCHANGED <<hookCalls, contexts>>
       ELSE /\ hookPc' = [hookPc EXCEPT ![t] = "idle"]
            /\ hookCalls' = [hookCalls EXCEPT ![t] = @ + 1]
            /\ contexts' = contexts + 1
            /\ UNCHANGED once
  /\ UNCHANGED logFuncs
  /\ HookFrame

\* The closure: gp_log_add_func(GP_LOG_DEBUG, log_function, null)
closure(t) ==
  /\ hookPc[t] = "closure"
  /\ logFuncs' = logFuncs + 1
  /\ once' = "COMPLETE"
  /\ hookPc' = [hookPc EXCEPT ![t] = "idle"]
  /\ hookCalls' = [hookCalls EXCEPT ![t] = @ + 1]
  /\ contexts' = contexts + 1
  /\ HookFrame

\* A Context is destroyed: the helpers hold no call that removes the hook
ContextDestroy ==
  /\ contexts > 0
  /\ contexts' = contexts - 1
  /\ UNCHANGED <<once, hookPc, hookCalls, logFuncs>>
  /\ HookFrame

NextHook ==
  \/ \E t \in HookThreads : hook_gp_log(t)
  \/ \E t \in HookThreads : call_once(t)
  \/ \E t \in HookThreads : closure(t)
  \/ ContextDestroy

---------------------------------------------------------------------------
(* libtool_lock: threads taking the process-wide lock, some panicking *)

Lockers == 1..MaxLockers

InitLock ==
  /\ locked = FALSE
  /\ poisoned = FALSE
  /\ lockPc = [t \in Lockers |-> "idle"]
  /\ guards = {}
  /\ acquired = [t \in Lockers |-> 0]

LockFrame == UNCHANGED <<opsVars, lifeVars, hookVars>>

\* A thread calls libtool_lock and waits in LIBTOOL_LOCK.lock()
LockCall(t) ==
  /\ lockPc[t] = "idle"
  /\ acquired[t] < MaxAcquire
  /\ lockPc' = [lockPc EXCEPT ![t] = "lock"]
  /\ UNCHANGED <<locked, poisoned, guards, acquired>>
  /\ LockFrame

\* LIBTOOL_LOCK.lock().unwrap(): a poisoned lock panics the caller, and the
\* guard inside the error is dropped
libtool_lock_unwrap(t) ==
  /\ lockPc[t] = "lock"
  /\ ~locked
  /\ IF poisoned
       THEN /\ lockPc' = [lockPc EXCEPT ![t] = "poison_panic"]
            /\ UNCHANGED <<locked, guards, acquired>>
       ELSE /\ locked' = TRUE
            /\ lockPc' = [lockPc EXCEPT ![t] = "holding"]
            /\ guards' = guards \cup {t}
            /\ acquired' = [acquired EXCEPT ![t] = @ + 1]
  /\ UNCHANGED poisoned
  /\ LockFrame

\* libtool_lock: lock() takes the mutex whether or not it is poisoned;
\* Ok(guard) => guard, Err(err) => err.into_inner()
libtool_lock(t) ==
  /\ lockPc[t] = "lock"
  /\ ~locked
  /\ locked' = TRUE
  /\ IF poisoned
       THEN /\ lockPc' = [lockPc EXCEPT ![t] = "holding"]
            /\ guards' = guards \cup {t}
       ELSE /\ lockPc' = [lockPc EXCEPT ![t] = "holding"]
            /\ guards' = guards \cup {t}
  /\ acquired' = [acquired EXCEPT ![t] = @ + 1]
  /\ UNCHANGED poisoned
  /\ LockFrame

\* The holder drops its guard
GuardDrop(t) ==
  /\ lockPc[t] = "holding"
  /\ locked' = FALSE
  /\ guards' = guards \ {t}
  /\ lockPc' = [lockPc EXCEPT ![t] = "idle"]
  /\ UNCHANGED <<poisoned, acquired>>
  /\ LockFrame

\* The holder panics: unwinding drops the guard, which poisons the mutex
HolderPanic(t) ==
  /\ lockPc[t] = "holding"
  /\ locked' = FALSE
  /\ poisoned' = TRUE
  /\ guards' = guards \ {t}
  /\ lockPc' = [lockPc EXCEPT ![t] = "panicked"]
  /\ UNCHANGED acquired
  /\ LockFrame

NextLock ==
  \/ \E t \in Lockers : LockCall(t)
  \/ \E t \in Lockers : libtool_lock(t)
  \/ \E t \in Lockers : GuardDrop(t)
  \/ \E t \in Lockers : HolderPanic(t)

---------------------------------------------------------------------------
(* Specifications *)

Init == InitOps /\ InitLife /\ InitHook /\ InitLock

Next == NextOps \/ NextLife \/ NextHook \/ NextLock

Spec     == Init /\ [][Next]_vars
SpecOps  == Init /\ [][NextOps]_vars
SpecLife == Init /\ [][NextLife]_vars
SpecHook == Init /\ [][NextHook]_vars
SpecLock == Init /\ [][NextLock]_vars

---------------------------------------------------------------------------
(* Properties *)

DriverSucceeded == trace # << >> /\ trace[1].status >= 0

\* C1: set_all_config with a Widget whose kind is not Window, or whose kind
\* cannot be read, returns an error, never invokes gp_camera_set_config and
\* leaves the device's configuration as it was; when the kind was read, the
\* error is the one that names the Window requirement.
SetAllConfigGuard ==
  (op = "set_all_config" /\ (~input.auxOk \/ input.kind # "Window")) =>
     /\ result.kind = "Err"
     /\ \A i \in 1..Len(trace) : trace[i].fn # "gp_camera_set_config"
     /\ devConfig = devBefore
     /\ input.auxOk =>
          result.err = "Full config object must be of type Window"

SetAllConfigGuardWitness ==
  /\ op = "set_all_config"
  /\ input.auxOk
  /\ input.kind = "Section"
  /\ input.status >= 0
  /\ input.value # devConfig
  /\ result.kind = "Err"

\* C2: when the driver call succeeds with a known tag, wait_event returns the
\* variant of that tag; the three path variants carry the folder and name of
\* the driver's file-path record, and the payload is not read for UNKNOWN,
\* TIMEOUT and CAPTURE_COMPLETE.
EventDecoding ==
  (op = "wait_event" /\ DriverSucceeded /\ input.tag \in KnownTags) =>
     /\ result.kind = "Ok"
     /\ input.tag = GP_EVENT_FILE_ADDED =>
          result.value = CameraFilePath("NewFile", input.folder, input.name)
     /\ input.tag = GP_EVENT_FOLDER_ADDED =>
          result.value = CameraFilePath("NewFolder", input.folder, input.name)
     /\ input.tag = GP_EVENT_FILE_CHANGED =>
          result.value = CameraFilePath("FileChanged", input.folder, input.name)
     /\ input.tag = GP_EVENT_UNKNOWN =>
          result.value.variant = "Unknown" /\ ~result.payloadRead
     /\ input.tag = GP_EVENT_TIMEOUT =>
          result.value.variant = "Timeout" /\ ~result.payloadRead
     /\ input.tag = GP_EVENT_CAPTURE_COMPLETE =>
          result.value.variant = "CaptureComplete" /\ ~result.payloadRead

EventDecodingWitness ==
  /\ op = "wait_event"
  /\ DriverSucceeded
  /\ input.tag = GP_EVENT_FOLDER_ADDED
  /\ result.value.variant = "NewFolder"
  /\ result.value.folder = "/store_00010001/DCIM"
  /\ result.value.name = "100CANON"

\* C3: when the driver call succeeds with a tag outside the known set,
\* wait_event returns Ok(CameraEvent::Unknown).
UnknownTagIsUnknown ==
  (op = "wait_event" /\ DriverSucceeded /\ input.tag \notin KnownTags) =>
     result.kind = "Ok" /\ result.value.variant = "Unknown"

\* C4: a timeout reported by the driver with a non-negative status comes back
\* as Ok(CameraEvent::Timeout), and wait_event returns Err only when the
\* driver call returned a negative status.
TimeoutIsSuccess ==
  op = "wait_event" =>
     /\ (DriverSucceeded /\ input.tag = GP_EVENT_TIMEOUT) =>
          result.kind = "Ok" /\ result.value.variant = "Timeout"
     /\ result.kind = "Err" => trace[1].status < 0

TimeoutIsSuccessWitness ==
  /\ op = "wait_event"
  /\ DriverSucceeded
  /\ input.tag = GP_EVENT_TIMEOUT
  /\ result.kind = "Ok"
  /\ result.value.variant = "Timeout"

\* C9: an operation whose driver call returned a negative status returns an
\* error without reading the out-parameters, and one whose driver call
\* returned zero or more returns a success value.
StatusDecidesResult ==
  \A i \in 1..Len(trace) :
     /\ trace[i].status < 0 => result.kind = "Err" /\ ~result.outRead
     /\ trace[i].status >= 0 => result.kind = "Ok"

\* C10: the timeout handed to the driver is non-negative and equals the
\* requested duration in whole milliseconds.
TimeoutIsRequested ==
  op = "wait_event" =>
     LET u == as_millis(input.secs, input.nanos)
     IN  /\ trace[1].arg >= 0
         /\ u.hi < (Limb \div 2)
         /\ trace[1].arg = (u.hi * Limb) + u.lo

\* C7: whenever a Widget or CameraFS derived from a Camera is used, that
\* Camera is still alive.
DerivedOnlyWhileCameraAlive ==
  lastUse.what # "none" => lastUse.cameraAlive

AliveCameras == {c \in CameraIds : cameras[c] = "alive"}

HookedOnce ==
  /\ logFuncs <= 1
  /\ once = "INCOMPLETE" => logFuncs = 0
  /\ once = "COMPLETE" => logFuncs = 1
  /\ (\E t \in HookThreads : hookCalls[t] > 0) => logFuncs = 1

HookedOnceWitness ==
  /\ \A t \in HookThreads : hookCalls[t] = MaxCalls
  /\ contexts = 0
  /\ logFuncs = 1

\* C6: at most one thread holds a guard of the libtool lock, the lock is
\* free whenever no guard exists, and no caller of libtool_lock panics on a
\* poisoned lock: it is handed the guard like any other caller.
LockSurvivesPanic ==
  /\ Cardinality(guards) <= 1
  /\ guards = {t \in Lockers : lockPc[t] = "holding"}
  /\ locked <=> guards # {}
  /\ \A t \in Lockers : lockPc[t] # "poison_panic"

LockSurvivesPanicWitness ==
  /\ poisoned
  /\ \E t \in Lockers : lockPc[t] = "panicked"
  /\ \E t \in Lockers : lockPc[t] = "holding" /\ t \in guards

===========================================================================
